---- MODULE Spec2Model ----
(***************************************************************************)
(* Model of the chat hub of src/main.py: the ConnectionManager registry    *)
(* (connect / disconnect / broadcast) and the per-connection handler       *)
(* websocket_endpoint, run as cooperative tasks of one event loop.  A task *)
(* runs atomically between two awaits; the awaits are websocket.accept(),  *)
(* websocket.receive_text() and connection.send_text().                    *)
(*                                                                         *)
(* Text is a tuple of one-character strings.  The transport library is the *)
(* environment: what receive_text returns or raises is chosen freely, and  *)
(* send_text raises exactly when the target's transport is closed.         *)
(***************************************************************************)
EXTENDS Integers, Sequences, FiniteSets, TLC

\* ---- bounds of the model ----
NumConns == 3
MaxFrames == 2
MaxCloses == 1

Conns == 1..NumConns

\* ---- inbound text ----
PING == <<"_", "_", "p", "i", "n", "g", "_", "_">>
EMPTY == <<>>
QUOTED == <<"h", "\"">>
Frames == {PING, EMPTY, QUOTED}

VARIABLES
    registry,    \* manager.active_connections, a list of handles
    pc,          \* where each connection's websocket_endpoint task stands
    client_id,   \* the path parameter of each handler
    transport,   \* "open" or "closed": whether send_text on the handle succeeds
    message,     \* the payload of the broadcast a task is running
    snap,        \* list(self.active_connections) of the broadcast a task is running
    idx,         \* position of that broadcast in its snapshot
    inbox,       \* what each client has been sent, in order
    frames,      \* history: the frames receive_text returned to each task
    bcasts,      \* history: the broadcast() calls of each task
    accepted,    \* history: connections whose connect() has completed
    triggers,    \* history: removal triggers fired for each connection
    removals,    \* history: triggers that took the handle out of the list
    closes       \* history: transports that went away under a running handler

vars == <<registry, pc, client_id, transport, message, snap, idx, inbox,
          frames, bcasts, accepted, triggers, removals, closes>>

\* ---- Python list operations ----
In(x, l) == \E i \in 1..Len(l) : l[i] = x

Elems(l) == {l[i] : i \in 1..Len(l)}

FirstIndex(l, x) == CHOOSE i \in 1..Len(l) : l[i] = x /\ \A j \in 1..(i - 1) : l[j] # x

\* list.remove(x): drops the first occurrence, raises ValueError when absent
ListRemove(l, x) ==
    IF In(x, l)
    THEN [list |-> SubSeq(l, 1, FirstIndex(l, x) - 1) \o SubSeq(l, FirstIndex(l, x) + 1, Len(l)),
          raised |-> FALSE]
    ELSE [list |-> l, raised |-> TRUE]

\* ---- json.dumps / JSON.parse of the message body ----
RECURSIVE JsonEscape(_)
JsonEscape(s) ==
    IF s = <<>> THEN <<>>
    ELSE (IF Head(s) \in {"\"", "\\"} THEN <<"\\", Head(s)>> ELSE <<Head(s)>>)
         \o JsonEscape(Tail(s))

RECURSIVE JsonUnescape(_)
JsonUnescape(s) ==
    IF s = <<>> THEN <<>>
    ELSE IF Head(s) = "\\" /\ Len(s) >= 2
         THEN <<s[2]>> \o JsonUnescape(Tail(Tail(s)))
         ELSE <<Head(s)>> \o JsonUnescape(Tail(s))

\* the payload as the client parses it; the "timestamp" field is left out, no
\* decision of the hub depends on it
dumps(cid, data) ==
    [client_id |-> cid, message |-> JsonEscape(data)]

\* the path parameter the page connects with: const clientId = Date.now()
PathId(c) == 100 + c

\* ---- ConnectionManager ----
\* connect() that appends the handle twice
connect_twice(reg, websocket) == Append(Append(reg, websocket), websocket)

connect(reg, websocket) == Append(reg, websocket)

\* connect() that registers the handle before awaiting accept()
connect_raises_registered(reg, websocket) == Append(reg, websocket)

\* connect() left by the exception of accept(): the append is never reached
connect_raises(reg, websocket) == reg

\* disconnect() that forgets the removal
disconnect_keeps(reg, websocket) == [list |-> reg, raised |-> FALSE]

\* disconnect() without the membership test
disconnect_unguarded(reg, websocket) == ListRemove(reg, websocket)

\* disconnect() that pops the newest handle instead of the given one
disconnect_pop(reg, websocket) ==
    IF In(websocket, reg)
    THEN [list |-> SubSeq(reg, 1, Len(reg) - 1), raised |-> FALSE]
    ELSE [list |-> reg, raised |-> FALSE]

disconnect(reg, websocket) ==
    IF In(websocket, reg)
    THEN ListRemove(reg, websocket)
    ELSE [list |-> reg, raised |-> FALSE]

\* broadcast() that iterates the list from its second element
broadcast_snapshot_tail(reg) == IF reg = <<>> THEN <<>> ELSE Tail(reg)

broadcast_snapshot(reg) == reg

\* broadcast() that walks the live list instead of the copy
broadcast_iter_live(snapshot, reg) == reg

\* the list the for loop of broadcast() walks: the copy made when it started
broadcast_iter(snapshot, reg) == snapshot

\* broadcast() that hangs on an empty list instead of returning
broadcast_returns_at_once_never(targets) == FALSE

\* the for loop over an empty copy runs no iteration: broadcast() returns
\* without suspending
broadcast_returns_at_once(targets) == targets = <<>>

\* broadcast() whose except branch drops the newest handle, not the failing one
broadcast_except_pop(reg, connection) ==
    IF In(connection, reg)
    THEN [list |-> SubSeq(reg, 1, Len(reg) - 1), raised |-> FALSE]
    ELSE [list |-> reg, raised |-> FALSE]

\* broadcast() whose except branch removes without the membership test
broadcast_except_unguarded(reg, connection) == ListRemove(reg, connection)

\* broadcast() whose except branch is a bare pass
broadcast_except_pass(reg, connection) == [list |-> reg, raised |-> FALSE]

broadcast_except(reg, connection) ==
    IF In(connection, reg)
    THEN ListRemove(reg, connection)
    ELSE [list |-> reg, raised |-> FALSE]

\* broadcast() whose loop ends at the first failing target
broadcast_next_abort(i, failed) == IF failed THEN i + NumConns ELSE i + 1

\* broadcast() that never gets past a failing target
broadcast_next_stuck(i, failed) == IF failed THEN 0 ELSE i + 1

\* position in the snapshot after the target at position i has been handled
broadcast_next(i, failed) == i + 1

\* keepalive test against the wrong literal
is_ping_wrong(data) == data = <<"p", "i", "n", "g">>

\* keepalive test that also drops empty frames
is_ping_or_empty(data) == data = PING \/ data = <<>>

is_ping(data) == data = PING

\* ---- the except clauses of websocket_endpoint ----
Exceptions == {"WebSocketDisconnect", "Exception"}

\* handler whose except Exception clause does not clean up
handler_except_leak(reg, websocket, exc) ==
    IF exc = "WebSocketDisconnect"
    THEN disconnect(reg, websocket)
    ELSE [list |-> reg, raised |-> FALSE]

handler_except(reg, websocket, exc) ==
    IF exc = "WebSocketDisconnect"
    THEN disconnect(reg, websocket)
    ELSE disconnect(reg, websocket)

\* a transport that hands a frame to the client ahead of the ones already sent
deliver_front(box, entry) == <<entry>> \o box

\* send_text() returning: the frame follows the earlier ones on the target's
\* transport
deliver(box, entry) == Append(box, entry)

NoMessage == [client_id |-> 0, message |-> <<>>]

RECURSIVE TotalLen(_, _)
TotalLen(f, S) ==
    IF S = {} THEN 0
    ELSE LET c == CHOOSE x \in S : TRUE IN Len(f[c]) + TotalLen(f, S \ {c})

FramesReceived == TotalLen(frames, Conns)

Init ==
    /\ registry = <<>>
    /\ pc = [c \in Conns |-> "idle"]
    /\ client_id = [c \in Conns |-> 0]
    /\ transport = [c \in Conns |-> "open"]
    /\ message = [c \in Conns |-> NoMessage]
    /\ snap = [c \in Conns |-> <<>>]
    /\ idx = [c \in Conns |-> 0]
    /\ inbox = [c \in Conns |-> <<>>]
    /\ frames = [c \in Conns |-> <<>>]
    /\ bcasts = [c \in Conns |-> <<>>]
    /\ accepted = {}
    /\ triggers = [c \in Conns |-> 0]
    /\ removals = [c \in Conns |-> 0]
    /\ closes = 0

\* ---- websocket_endpoint: the handler is invoked, connect() awaits accept() ----
Handler(c) ==
    /\ pc[c] = "idle"
    /\ pc' = [pc EXCEPT ![c] = "accepting"]
    /\ client_id' = [client_id EXCEPT ![c] = PathId(c)]
    /\ UNCHANGED <<registry, transport, message, snap, idx, inbox,
                   frames, bcasts, accepted, triggers, removals, closes>>

\* accept() returns: connect() appends the handle, the receive loop starts
AcceptOk(c) ==
    /\ pc[c] = "accepting"
    /\ transport[c] = "open"
    /\ registry' = connect(registry, c)
    /\ accepted' = accepted \cup {c}
    /\ pc' = [pc EXCEPT ![c] = "recv"]
    /\ UNCHANGED <<client_id, transport, message, snap, idx, inbox,
                   frames, bcasts, triggers, removals, closes>>

\* accept() raises: the exception leaves connect() and the handler, outside the try
AcceptFail(c) ==
    /\ pc[c] = "accepting"
    /\ pc' = [pc EXCEPT ![c] = "failed"]
    /\ transport' = [transport EXCEPT ![c] = "closed"]
    /\ registry' = connect_raises(registry, c)
    /\ UNCHANGED <<client_id, message, snap, idx, inbox,
                   frames, bcasts, accepted, triggers, removals, closes>>

\* the history of one removal trigger for connection t taking reg to reg2
Triggered(trg, t) == [trg EXCEPT ![t] = @ + 1]

Removed(rem, t, reg, reg2) == [rem EXCEPT ![t] = @ + (IF Len(reg2) < Len(reg) THEN 1 ELSE 0)]

\* history: the broadcast() calls that have returned
Finished ==
    {x \in Conns \X (1..(MaxFrames + 1)) :
        x[2] <= Len(bcasts[x[1]]) /\ bcasts[x[1]][x[2]].done}

\* receive_text() returns a frame: the ping test, the payload, broadcast() up to
\* its first send_text
OnFrame(c, data) ==
    /\ FramesReceived < MaxFrames
    /\ frames' = [frames EXCEPT ![c] = Append(@, data)]
    /\ IF is_ping(data)
       THEN UNCHANGED <<pc, message, snap, idx, bcasts>>
       ELSE LET payload == dumps(client_id[c], data)
                targets == broadcast_snapshot(registry)
            IN /\ bcasts' = [bcasts EXCEPT ![c] = Append(@,
                                 [n |-> Len(frames[c]) + 1, payload |-> payload,
                                  snap |-> targets, ok |-> <<>>, failed |-> <<>>,
                                  before |-> Finished,
                                  done |-> broadcast_returns_at_once(targets)])]
               /\ IF broadcast_returns_at_once(targets)
                  THEN UNCHANGED <<pc, message, snap, idx>>
                  ELSE /\ pc' = [pc EXCEPT ![c] = "send"]
                       /\ message' = [message EXCEPT ![c] = payload]
                       /\ snap' = [snap EXCEPT ![c] = targets]
                       /\ idx' = [idx EXCEPT ![c] = 1]
    /\ UNCHANGED <<registry, client_id, transport, inbox,
                   accepted, triggers, removals, closes>>

\* handler that starts the next broadcast while the previous one is still sending
ReceiveText_overlapping(c, data) ==
    /\ pc[c] \in {"recv", "send"}
    /\ OnFrame(c, data)

ReceiveText(c, data) ==
    /\ pc[c] = "recv"
    /\ OnFrame(c, data)

\* the for loop of broadcast() moves on from position idx[c]; past the end
\* broadcast() returns and the handler awaits receive_text() again
Advance(c, failed, reg2) ==
    LET i == broadcast_next(idx[c], failed)
        b == bcasts[c][Len(bcasts[c])]
        t == broadcast_iter(snap[c], registry)[idx[c]]
        rest == broadcast_iter(snap[c], reg2)
        b2 == [b EXCEPT !.ok = IF failed THEN @ ELSE Append(@, t),
                        !.failed = IF failed THEN Append(@, t) ELSE @,
                        !.done = i > Len(rest)]
    IN /\ bcasts' = [bcasts EXCEPT ![c] = [@ EXCEPT ![Len(@)] = b2]]
       /\ IF i > Len(rest)
          THEN /\ pc' = [pc EXCEPT ![c] = "recv"]
               /\ message' = [message EXCEPT ![c] = NoMessage]
               /\ snap' = [snap EXCEPT ![c] = <<>>]
               /\ idx' = [idx EXCEPT ![c] = 0]
          ELSE /\ idx' = [idx EXCEPT ![c] = i]
               /\ UNCHANGED <<pc, message, snap>>

\* send_text() to the current target returns
SendOk(c) ==
    /\ pc[c] = "send"
    /\ idx[c] \in 1..Len(broadcast_iter(snap[c], registry))
    /\ LET t == broadcast_iter(snap[c], registry)[idx[c]]
       IN /\ transport[t] = "open"
          /\ inbox' = [inbox EXCEPT ![t] = deliver(@,
                           [from |-> c, n |-> bcasts[c][Len(bcasts[c])].n,
                            payload |-> message[c]])]
    /\ Advance(c, FALSE, registry)
    /\ UNCHANGED <<registry, client_id, transport, frames,
                   accepted, triggers, removals, closes>>

\* send_text() to the current target raises: the except branch of broadcast().
\* An exception raised inside that branch leaves broadcast() and is caught by
\* the handler's except Exception, which calls disconnect() on the sender.
SendFail(c) ==
    /\ pc[c] = "send"
    /\ idx[c] \in 1..Len(broadcast_iter(snap[c], registry))
    /\ LET t == broadcast_iter(snap[c], registry)[idx[c]]
           r == broadcast_except(registry, t)
           r2 == handler_except(r.list, c, "Exception")
       IN /\ transport[t] = "closed"
          /\ IF ~r.raised
             THEN /\ registry' = r.list
                  /\ triggers' = Triggered(triggers, t)
                  /\ removals' = Removed(removals, t, registry, r.list)
                  /\ Advance(c, TRUE, r.list)
                  /\ UNCHANGED <<transport>>
             ELSE /\ registry' = r2.list
                  /\ triggers' = Triggered(Triggered(triggers, t), c)
                  /\ removals' = Removed(removals, c, r.list, r2.list)
                  /\ pc' = [pc EXCEPT ![c] = IF r2.raised THEN "crashed" ELSE "done"]
                  /\ transport' = [transport EXCEPT ![c] = "closed"]
                  /\ UNCHANGED <<message, snap, idx, bcasts>>
    /\ UNCHANGED <<client_id, inbox, frames, accepted, closes>>

\* receive_text() raises: WebSocketDisconnect when the peer has closed, any
\* other Exception otherwise; the matching except clause runs and the task ends
ReceiveRaises(c, exc) ==
    /\ pc[c] = "recv"
    /\ LET r == handler_except(registry, c, exc)
       IN /\ registry' = r.list
          /\ triggers' = Triggered(triggers, c)
          /\ removals' = Removed(removals, c, registry, r.list)
          /\ pc' = [pc EXCEPT ![c] = IF r.raised THEN "crashed" ELSE "done"]
          /\ transport' = [transport EXCEPT ![c] = "closed"]
    /\ UNCHANGED <<client_id, message, snap, idx, inbox,
                   frames, bcasts, accepted, closes>>

\* the peer's transport goes away while the handler is still running
CloseTransport(c) ==
    /\ pc[c] \in {"recv", "send"}
    /\ transport[c] = "open"
    /\ closes < MaxCloses
    /\ closes' = closes + 1
    /\ transport' = [transport EXCEPT ![c] = "closed"]
    /\ UNCHANGED <<registry, pc, client_id, message, snap, idx, inbox,
                   frames, bcasts, accepted, triggers, removals>>

Next ==
    \/ \E c \in Conns : Handler(c)
    \/ \E c \in Conns : AcceptOk(c)
    \/ \E c \in Conns : AcceptFail(c)
    \/ \E c \in Conns, data \in Frames : ReceiveText(c, data)
    \/ \E c \in Conns : SendOk(c)
    \/ \E c \in Conns : SendFail(c)
    \/ \E c \in Conns, exc \in Exceptions : ReceiveRaises(c, exc)
    \/ \E c \in Conns : CloseTransport(c)

Spec == Init /\ [][Next]_vars

\* the event loop resumes every task whose await has completed, and every
\* send_text() eventually returns or raises
FairSpec ==
    /\ Init
    /\ [][Next]_vars
    /\ \A c \in Conns : WF_vars(SendOk(c) \/ SendFail(c))

TypeOK ==
    /\ Elems(registry) \subseteq Conns
    /\ \A c \in Conns : pc[c] \in {"idle", "accepting", "recv", "send", "done", "failed", "crashed"}

\* ---- helpers of the properties ----
Calls == {x \in Conns \X (1..(MaxFrames + 1)) : x[2] <= Len(bcasts[x[1]])}

Call(x) == bcasts[x[1]][x[2]]

\* the positions of inbox[t] holding the message of frame n of connection c
Deliveries(t, c, n) == {k \in 1..Len(inbox[t]) : inbox[t][k].from = c /\ inbox[t][k].n = n}

NonPing(s) == SelectSeq(s, LAMBDA f : f # PING)

Ended(c) == pc[c] \in {"done", "failed", "crashed"}

\* C1: the registry holds a connection exactly when its connect() has completed
\* and no removal of it (disconnect() or the except branch of broadcast()) has
\* happened since.
C1_RegistryMembership ==
    \A c \in Conns : In(c, registry) <=> (c \in accepted /\ triggers[c] = 0)

C1_Witness ==
    \E c, d, e \in Conns :
        /\ In(c, registry)
        /\ d \in accepted /\ triggers[d] > 0 /\ ~In(d, registry)
        /\ pc[e] = "failed" /\ ~In(e, registry)

\* C2: a broadcast that has returned attempted every target of its snapshot
\* exactly once, whatever failed and wherever, and every target whose transport
\* is healthy holds the payload.
C2_FailureIsolation ==
    \A x \in Calls :
        Call(x).done =>
            /\ Elems(Call(x).ok) \cup Elems(Call(x).failed) = Elems(Call(x).snap)
            /\ Len(Call(x).ok) + Len(Call(x).failed) = Len(Call(x).snap)
            /\ \A t \in Elems(Call(x).snap) :
                   transport[t] = "open" =>
                       \E k \in Deliveries(t, x[1], Call(x).n) :
                           inbox[t][k].payload = Call(x).payload

C2_Witness ==
    \E x \in Calls :
        /\ Call(x).done
        /\ Len(Call(x).failed) >= 2
        /\ Call(x).snap[1] \in Elems(Call(x).failed)
        /\ \E t \in Elems(Call(x).ok) : Deliveries(t, x[1], Call(x).n) # {}

\* C3: a target whose send_text raised during a broadcast is out of the registry
\* from that moment on: when the call returns and in every later state.
C3_SelfHealing ==
    \A x \in Calls : \A t \in Elems(Call(x).failed) : ~In(t, registry)

C3_Witness ==
    \E x \in Calls : \E t \in Elems(Call(x).failed) :
        /\ Call(x).done
        /\ pc[t] \in {"recv", "send"}
        /\ removals[t] = 1

\* C4: a step in which a task receives "__ping__" starts no broadcast, sends
\* nothing, leaves the registry as it is and leaves the task awaiting its next
\* frame.
C4_PingIsInert ==
    [][\A c \in Conns :
          (Len(frames'[c]) = Len(frames[c]) + 1 /\ frames'[c][Len(frames'[c])] = PING)
          => /\ registry' = registry
             /\ inbox' = inbox
             /\ bcasts' = bcasts
             /\ <<snap', idx', message'>> = <<snap, idx, message>>
             /\ pc' = pc
             /\ pc'[c] = "recv"]_vars

C4_Witness ==
    \E c, d \in Conns :
        /\ c # d
        /\ Len(frames[c]) >= 1 /\ frames[c][Len(frames[c])] = PING
        /\ pc[c] = "recv" /\ In(c, registry)
        /\ pc[d] = "send"

\* C5: each task has made as many broadcast() calls as it has received frames
\* other than "__ping__", the empty frame included, and the i-th call carries
\* the body of the i-th such frame.
C5_OneBroadcastPerFrame ==
    \A c \in Conns :
        /\ Len(bcasts[c]) = Len(NonPing(frames[c]))
        /\ \A i \in 1..Len(bcasts[c]) :
               /\ JsonUnescape(bcasts[c][i].payload.message) = NonPing(frames[c])[i]
               /\ frames[c][bcasts[c][i].n] = NonPing(frames[c])[i]

C5_Witness ==
    \E c \in Conns :
        /\ frames[c] = <<PING, EMPTY>>
        /\ Len(bcasts[c]) = 1
        /\ bcasts[c][1].payload.message = <<>>

\* C6: a broadcast that has returned with the sender and every target healthy
\* has put exactly one message into the inbox of every member of the registry
\* it started from, the sender among them, carrying the sender's client_id and
\* the frame's body, and nothing into any other inbox.
C6_ExactDelivery ==
    \A x \in Calls :
        (/\ Call(x).done
         /\ \A t \in Elems(Call(x).snap) \cup {x[1]} : transport[t] = "open")
        => /\ x[1] \in Elems(Call(x).snap)
           /\ \A t \in Conns :
                  IF t \in Elems(Call(x).snap)
                  THEN /\ Cardinality(Deliveries(t, x[1], Call(x).n)) = 1
                       /\ \A k \in Deliveries(t, x[1], Call(x).n) :
                              /\ inbox[t][k].payload.client_id = PathId(x[1])
                              /\ JsonUnescape(inbox[t][k].payload.message)
                                     = frames[x[1]][Call(x).n]
                  ELSE Deliveries(t, x[1], Call(x).n) = {}

C6_Witness ==
    \E x \in Calls :
        /\ Call(x).done
        /\ Len(Call(x).snap) >= 2
        /\ \A t \in Elems(Call(x).snap) \cup {x[1]} : transport[t] = "open"
        /\ frames[x[1]][Call(x).n] = QUOTED
        /\ \A t \in Elems(Call(x).snap) : Deliveries(t, x[1], Call(x).n) # {}

\* C7: every inbox holds the messages of one sender in the order of that
\* sender's frames, and a task starts a broadcast only when its previous
\* broadcast has returned.
C7_FifoPerSender ==
    /\ \A t \in Conns : \A k1, k2 \in 1..Len(inbox[t]) :
           (k1 < k2 /\ inbox[t][k1].from = inbox[t][k2].from)
               => inbox[t][k1].n < inbox[t][k2].n
    /\ \A x \in Calls : x[2] < Len(bcasts[x[1]]) => Call(x).done

C7_Witness ==
    \E t, c \in Conns : \E k1, k2 \in 1..Len(inbox[t]) :
        /\ t # c
        /\ k1 < k2
        /\ inbox[t][k1].from = c /\ inbox[t][k2].from = c
        /\ inbox[t][k1].n < inbox[t][k2].n

\* C8: of the removal triggers fired for one connection exactly one takes the
\* handle out of the registry; a trigger that finds it absent changes nothing
\* and raises nothing.
C8_IdempotentRemoval ==
    [][\A c \in Conns :
          triggers'[c] > triggers[c]
          => /\ IF In(c, registry)
                THEN /\ registry' = ListRemove(registry, c).list
                     /\ removals'[c] = removals[c] + 1
                ELSE /\ registry' = registry
                     /\ removals'[c] = removals[c]
             /\ removals'[c] = 1
             /\ \A d \in Conns : pc'[d] # "crashed"]_vars

C8_Witness ==
    \E c \in Conns :
        /\ triggers[c] >= 3
        /\ removals[c] = 1
        /\ pc[c] = "done"

\* C9: a connection whose handler has terminated, by whichever exception, is not
\* in the registry.
C9_NoEntryAfterEnd ==
    \A c \in Conns : Ended(c) => ~In(c, registry)

C9_Witness ==
    \E c, d \in Conns :
        /\ pc[c] = "done" /\ removals[c] = 1 /\ triggers[c] = 1
        /\ pc[d] = "done" /\ triggers[d] >= 2
        /\ registry # <<>>

NoDup(l) == \A i, j \in 1..Len(l) : l[i] = l[j] => i = j

LastCall(b) == b[Len(b)]

\* C11: a step in which send_text raises leaves the sending task in its
\* broadcast or back at receive_text, and changes neither the position of any
\* other task nor the membership of any connection but the failing target.
C11_FailureContained ==
    [][\A c \in Conns :
          SendFail(c)
          => /\ pc'[c] \in {"send", "recv"}
             /\ \A d \in Conns \ {c} : pc'[d] = pc[d]
             /\ \A d \in Conns \ {snap[c][idx[c]]} :
                    In(d, registry') <=> In(d, registry)]_vars

C11_Witness ==
    \E x \in Calls :
        /\ x[2] = 1
        /\ Call(x).done
        /\ Call(x).failed # <<>>
        /\ x[1] \notin Elems(Call(x).failed)
        /\ In(x[1], registry)
        /\ Len(frames[x[1]]) > Call(x).n

\* C12: a broadcast that starts takes as its targets the registry of that
\* moment, which holds no connection a removal trigger has fired for: no send
\* is attempted to a connection by a broadcast started after its removal.
C12_NoSendAfterRemoval ==
    [][\A c \in Conns :
          Len(bcasts'[c]) > Len(bcasts[c])
          => /\ LastCall(bcasts'[c]).snap = registry
             /\ \A t \in Elems(LastCall(bcasts'[c]).snap) : triggers[t] = 0]_vars

C12_Witness ==
    /\ registry = <<1, 3>>
    /\ transport[2] = "closed"
    /\ Len(bcasts[1]) = 2
    /\ bcasts[1][1].done /\ bcasts[1][1].snap = <<1, 2, 3>>
    /\ bcasts[1][1].failed = <<2>> /\ bcasts[1][1].ok = <<1, 3>>
    /\ bcasts[1][2].done /\ bcasts[1][2].snap = <<1, 3>>
    /\ bcasts[1][2].ok = <<1, 3>>
    /\ Len(inbox[1]) = 2 /\ Len(inbox[3]) = 2 /\ inbox[2] = <<>>

\* C13: a step in which accept() raises leaves the registry, every inbox, every
\* broadcast and every other task as they are, and the connection is never in
\* the registry and never leaves the failed state afterwards.
C13_HandshakeFailure ==
    [][\A c \in Conns :
          /\ (pc[c] = "accepting" /\ pc'[c] = "failed")
             => /\ registry' = registry
                /\ c \notin accepted'
                /\ inbox' = inbox /\ bcasts' = bcasts
                /\ <<snap', idx', message'>> = <<snap, idx, message>>
                /\ \A d \in Conns \ {c} : pc'[d] = pc[d]
          /\ pc[c] = "failed"
             => /\ pc'[c] = "failed"
                /\ ~In(c, registry') /\ c \notin accepted']_vars

C13_Witness ==
    \E c, d \in Conns :
        /\ pc[c] = "failed"
        /\ pc[d] = "send" /\ idx[d] = 2
        /\ Len(registry) = 2

\* C14: the registry never holds a handle twice, and no broadcast attempts two
\* sends to one connection.
C14_NoDuplicates ==
    /\ NoDup(registry)
    /\ \A x \in Calls :
           /\ NoDup(Call(x).snap)
           /\ NoDup(Call(x).ok \o Call(x).failed)

C14_Witness ==
    /\ Len(registry) = 3
    /\ \E x \in Calls : Call(x).done /\ Len(Call(x).ok) = 3

\* C15: a broadcast that starts on an empty registry sends nothing, leaves the
\* registry empty and returns at once: the task is back at receive_text.
C15_EmptyBroadcast ==
    [][\A c \in Conns :
          (Len(bcasts'[c]) > Len(bcasts[c]) /\ registry = <<>>)
          => /\ inbox' = inbox
             /\ registry' = <<>>
             /\ pc' = pc /\ pc'[c] = "recv"
             /\ LastCall(bcasts'[c]).done
             /\ LastCall(bcasts'[c]).ok = <<>>
             /\ LastCall(bcasts'[c]).failed = <<>>]_vars

C15_Witness ==
    \E x \in Calls :
        /\ Call(x).snap = <<>>
        /\ Call(x).done
        /\ pc[x[1]] = "recv"
        /\ registry = <<>>

\* C16 as claimed: no broadcast calls send_text on the handle of a connection
\* whose handler has terminated.
C16_ClosedIsTerminal ==
    [][\A c \in Conns :
          (SendOk(c) \/ SendFail(c)) => ~Ended(snap[c][idx[c]])]_vars

\* C17: the messages of two senders can reach two receivers in opposite
\* orders only when the two broadcasts overlap: a broadcast that had returned
\* before another one started precedes it in every inbox holding both.
C17_OrderOnlyUnderRace ==
    \A x, y \in Calls :
        (x[1] # y[1] /\ x \in Call(y).before)
        => \A t \in Conns :
               \A k1 \in Deliveries(t, x[1], Call(x).n) :
                   \A k2 \in Deliveries(t, y[1], Call(y).n) : k1 < k2

C17_Witness ==
    \E x, y \in Calls : \E r1, r2 \in Conns :
        /\ x[1] # y[1]
        /\ r1 # r2
        /\ r2 \notin {x[1], y[1]}
        /\ \E k1 \in Deliveries(r1, x[1], Call(x).n) :
               \E k2 \in Deliveries(r1, y[1], Call(y).n) : k1 < k2
        /\ \E k1 \in Deliveries(r2, x[1], Call(x).n) :
               \E k2 \in Deliveries(r2, y[1], Call(y).n) : k2 < k1

\* C18: under fair scheduling every broadcast returns, and when it does every
\* target of its snapshot whose transport is still healthy holds the message.
C18_EventualDelivery ==
    \A c \in Conns :
        (pc[c] = "send")
        ~> (/\ pc[c] = "recv"
            /\ bcasts[c] # <<>>
            /\ LastCall(bcasts[c]).done
            /\ \A t \in Elems(LastCall(bcasts[c]).snap) :
                   transport[t] = "open"
                       => Deliveries(t, c, LastCall(bcasts[c]).n) # {})

C18_Witness ==
    \E x \in Calls :
        /\ Call(x).done
        /\ Len(Call(x).snap) = 3
        /\ Len(Call(x).ok) = 2 /\ Len(Call(x).failed) = 1
        /\ \A t \in Elems(Call(x).ok) : Deliveries(t, x[1], Call(x).n) # {}

\* C19: the targets a broadcast has attempted are, at every moment, the first
\* entries of the snapshot it took when it started, each once; a connection
\* outside that snapshot holds nothing of it, also one that has joined since.
C19_SnapshotTargets ==
    \A x \in Calls :
        LET b == Call(x)
            k == Len(b.ok) + Len(b.failed)
        IN /\ k <= Len(b.snap)
           /\ Elems(b.ok) \cup Elems(b.failed) = {b.snap[j] : j \in 1..k}
           /\ NoDup(b.ok \o b.failed)
           /\ b.done <=> k = Len(b.snap)
           /\ \A t \in Conns :
                  Cardinality(Deliveries(t, x[1], b.n))
                      = IF t \in Elems(b.ok) THEN 1 ELSE 0

C19_Witness ==
    \E c, t, d \in Conns :
        /\ pc[c] = "send" /\ idx[c] >= 2
        /\ In(t, registry) /\ ~In(t, snap[c]) /\ inbox[t] = <<>>
        /\ In(d, snap[c]) /\ ~In(d, registry)

\* C20 as claimed: a connection whose receive loop is running is in the
\* registry.
C20_ActiveIsMember ==
    \A c \in Conns : pc[c] \in {"recv", "send"} => In(c, registry)

====
